---- MODULE Spec2Model ----
(***************************************************************************)
(* fb-notice-bot: the notice automation script, in the revisions kept in   *)
(* the repository.  Every revision is one run-to-completion script: load   *)
(* the store of posted ids, scrape the notice lists, filter each notice by *)
(* its title, resolve its media, publish it, record its id.                *)
(*                                                                         *)
(* Revisions (the value of rev):                                           *)
(*   "auto_a"  src/automation.js 1-188      "auto_b"  src/automation.js 190-410 *)
(*   "p001_a"  src/unnamed/part_001 1-210   "p001_b"  src/unnamed/part_001 212-464 *)
(*   "p002"    src/unnamed/part_002         "p003_a"  src/unnamed/part_003 1-260 *)
(*   "p003_b"  src/unnamed/part_003 262-560 "p004"    src/unnamed/part_004 *)
(*   "p005"    src/unnamed/part_005         "p006"    src/unnamed/part_006 *)
(*                                                                         *)
(* Text is a sequence of UTF-16 code units, one per element: an ASCII      *)
(* character stands for itself, a Devanagari one is written "uXXXX".       *)
(***************************************************************************)
EXTENDS Integers, Sequences, FiniteSets, TLC

VARIABLES
    rev,        \* the revision of the script that runs
    title,      \* relevance filter: the title handed to the filter
    verdict,    \* relevance filter: "none" before the call, then "accept" / "reject"
    noticeA,    \* notice id: two scraped notices, [title, link]
    noticeB,
    idA,        \* notice id: the id main computed for each, NoId before
    idB,
    file,       \* run: the store file on disk, [kind, ids]
    posted,     \* run: the in-memory store (the variable posted)
    postedIsArray, \* run: FALSE when posted holds a JSON value that is no array
    pc,         \* run: "load", "loop", "publish", "done", "raised"
    raisedAt,   \* run: the step whose exception ended the run, "none" otherwise
    runNo,      \* run: 1 for the first run of the script, 2 for the run after it
    notices,    \* run: the scraped notices, in order, both sources
    idx,        \* run: how many of them the loop has been through
    media,      \* run: what media resolution gave for the notice at hand
    postedIn,   \* run: per run, the notices that got a create-post call
    prevPosted, \* run: the store as it was before the latest record step
    lastId,     \* run: the id of the latest record step of this run, NoId if none
    lastResult, \* run: what the create-post call of that notice gave, "none" if none
    wrote,      \* run: this run has overwritten the store file
    writeFailed, \* run: a write of the store file has failed (in either run)
    faults,     \* run: number of failures of the environment so far
    gap,        \* run: "none", or "due" / "waited": the wait after the latest
                \*   create-post call of this run is still to come / is over
    gapSkipped, \* run: a create-post call was made while the wait was due
    browserOpen, \* run: main has launched the browser and not closed it
    postedAgain, \* run: the notices with more than one create-post call
    unrecorded, \* run: the notices with a create-post call and no record step
    summary,    \* run: the four counters of part_005 233-236
    records,    \* run: number of record steps of this run
    doc,        \* pdfToImages: what the document link serves, [kind, pages]
    renderFault, \* pdfToImages: the page the renderer fails on and how, [page, kind]
    pdfPc,      \* pdfToImages: "fetch", "pages", "done", "raised"
    pdfRaisedAt, \* pdfToImages: the step that threw, "none" otherwise
    totalPages, \* pdfToImages: pdfDoc.getPageCount()
    pageNo,     \* pdfToImages: the loop variable i
    images,     \* pdfToImages: the list returned, each path as the page it names
    skipImages, \* pdfToImages: the skipImages flag of part_002
    detail,     \* media resolution: what the detail page of the notice holds
    mediaPc,    \* media resolution: "look" before it, then "done"
    mediaResult, \* media resolution: what main has in hand after it, [kind, count]
    imagePaths, \* publish: the assets handed to the publish step, in order
    disk,       \* publish: the image files of the notice that are on disk
    pubPc,      \* publish: "upload", "post", "done", "raised"
    assetNo,    \* publish: the asset the upload loop is at
    attempt,    \* publish: the attempts made so far for that asset
    currentImage, \* publish: the file the next attempt reads (part_002)
    mediaIds,   \* publish: the assets that got a media id, in order
    attempts,   \* publish: per asset, the upload calls made for it
    ended,      \* publish: per asset, how its upload loop ended
    uploadCalls, \* publish: upload calls made before the create-post call
    createCalls, \* publish: create-post calls made for the notice
    createResult, \* publish: "none", or "ok" / "rejected" / "threw" for the call
    attached,   \* publish: media references attached to the create-post call
    outcome,    \* publish: what the publish step returned, "none" before
    served,     \* media sources: what the document link serves
    resPc,      \* media sources: "document", "fetch", "check", "parse", "rasterize",
                \*   "image", "done", "raised"
    tried,      \* media sources: the sources tried so far, in order
    docSteps,   \* media sources: the steps made on the fetched document, in order
    resResult,  \* media sources: what main has in hand, [kind, count]
    netIn,      \* network calls: the notice at hand, [no, hasPdf, scheme, files]
    netPc,      \* network calls: "next", "fetch", "send"
    netSent,    \* network calls: the files sent so far
    calls       \* network calls: the calls made through fetch, [kind, agent]

varsFilter == <<title, verdict>>
varsId == <<noticeA, noticeB, idA, idB>>
varsRun == <<file, posted, postedIsArray, pc, raisedAt, runNo, notices, idx, media,
             postedIn, prevPosted, lastId, lastResult, wrote, writeFailed, faults,
             gap, gapSkipped, browserOpen, postedAgain, unrecorded, summary,
             records>>
varsPdf == <<doc, renderFault, pdfPc, pdfRaisedAt, totalPages, pageNo, images,
             skipImages>>
varsMedia == <<detail, mediaPc, mediaResult>>
varsPub == <<imagePaths, disk, pubPc, assetNo, attempt, currentImage, mediaIds,
             attempts, ended, uploadCalls, createCalls, createResult, attached,
             outcome>>
varsRes == <<served, resPc, tried, docSteps, resResult>>
varsNet == <<netIn, netPc, netSent, calls>>
vars == <<rev, varsFilter, varsId, varsRun, varsPdf, varsMedia, varsPub, varsRes,
          varsNet>>

\* What the variables of a part of the model hold while another part runs.
NoId == <<>>
NoNotice == [title |-> <<>>, link |-> <<>>]
IdleFilter == title = <<>> /\ verdict = "none"
IdleId == noticeA = NoNotice /\ noticeB = NoNotice /\ idA = NoId /\ idB = NoId
NoSummary ==
    [totalNotices |-> 0, postedWithImages |-> 0, postedTextOnly |-> 0,
     failedPosts |-> 0]
IdleRun ==
    /\ gap = "none" /\ gapSkipped = FALSE /\ browserOpen = FALSE
    /\ postedAgain = {} /\ unrecorded = {} /\ summary = NoSummary /\ records = 0
    /\ file = [kind |-> "missing", ids |-> <<>>]
    /\ posted = <<>> /\ postedIsArray = TRUE
    /\ pc = "idle" /\ raisedAt = "none" /\ runNo = 1
    /\ notices = <<>> /\ idx = 0 /\ media = "none"
    /\ postedIn = [r \in 1..2 |-> {}]
    /\ prevPosted = <<>> /\ lastId = NoId /\ lastResult = "none"
    /\ wrote = FALSE /\ writeFailed = FALSE /\ faults = 0
NoDoc == [kind |-> "none", pages |-> 0]
NoFault == [page |-> 0, kind |-> "none"]
IdlePdf ==
    /\ doc = NoDoc /\ renderFault = NoFault
    /\ pdfPc = "idle" /\ pdfRaisedAt = "none"
    /\ totalPages = 0 /\ pageNo = 0 /\ images = <<>> /\ skipImages = FALSE
NoDetail == [iframePdf |-> FALSE, anchorPdf |-> FALSE, pages |-> 0,
             img |-> [w |-> 0, h |-> 0, ext |-> FALSE]]
NoMedia == [kind |-> "none", count |-> 0]
IdleMedia == detail = NoDetail /\ mediaPc = "idle" /\ mediaResult = NoMedia
NoFile == <<0, "none">>
IdlePub ==
    /\ imagePaths = <<>> /\ disk = {} /\ pubPc = "idle"
    /\ assetNo = 0 /\ attempt = 0 /\ currentImage = NoFile
    /\ mediaIds = <<>> /\ attempts = <<>> /\ ended = <<>>
    /\ uploadCalls = 0 /\ createCalls = 0 /\ createResult = "none"
    /\ attached = 0 /\ outcome = "none"
NoServed ==
    [reach |-> FALSE, ok |-> FALSE, ctypePdf |-> FALSE, magic |-> FALSE,
     parsable |-> FALSE]

IdleRes ==
    /\ served = NoServed /\ resPc = "idle" /\ tried = <<>> /\ docSteps = <<>>
    /\ resResult = NoMedia

NoCall == [no |-> 0, hasPdf |-> FALSE, scheme |-> "none", files |-> 0]

IdleNet == netIn = NoCall /\ netPc = "idle" /\ netSent = 0 /\ calls = {}

IdleRest == IdleMedia /\ IdlePub /\ IdleRes /\ IdleNet

(***************************************************************************)
(* Text helpers: String.prototype.toLowerCase and String.prototype.includes *)
(***************************************************************************)
UpperAZ ==
    <<"A", "B", "C", "D", "E", "F", "G", "H", "I", "J", "K", "L", "M",
      "N", "O", "P", "Q", "R", "S", "T", "U", "V", "W", "X", "Y", "Z">>

LowerAZ ==
    <<"a", "b", "c", "d", "e", "f", "g", "h", "i", "j", "k", "l", "m",
      "n", "o", "p", "q", "r", "s", "t", "u", "v", "w", "x", "y", "z">>

lowerChar(c) ==
    IF \E k \in DOMAIN UpperAZ : UpperAZ[k] = c
    THEN LowerAZ[CHOOSE k \in DOMAIN UpperAZ : UpperAZ[k] = c]
    ELSE c

toLowerCase(s) == [i \in 1..Len(s) |-> lowerChar(s[i])]

includes(t, x) ==
    \E i \in 0..(Len(t) - Len(x)) : SubSeq(t, i + 1, i + Len(x)) = x

some(list, t) == \E k \in DOMAIN list : includes(t, list[k])

(***************************************************************************)
(* Configuration lists                                                     *)
(***************************************************************************)
allowedPrograms ==
    << <<"c", "s", "i", "t">>,
       <<"b", "i", "t">>,
       <<"b", "b", "a">>,
       <<"e", "n", "g", "i", "n", "e", "e", "r", "i", "n", "g">>,
       <<"b", "c", "a">> >>

importantKeywords ==
    << <<"u0938", "u0942", "u091A", "u0928", "u093E">>,
       <<"u091C", "u0930", "u0941", "u0930", "u0940">>,
       <<"u0905", "u0924", "u094D", "u092F", "u0928", "u094D", "u0924">>,
       <<"u092A", "u0930", "u093F", "u0915", "u094D", "u0937", "u093E">>,
       <<"u0928", "u0924", "u093F", "u091C", "u093E">>,
       <<"u092B", "u0930", "u094D", "u092E">>,
       <<"u0938", "u0942", "u091A", "u0940">>,
       <<"n", "o", "t", "i", "c", "e">>,
       <<"r", "e", "s", "u", "l", "t">>,
       <<"e", "x", "a", "m">>,
       <<"r", "o", "u", "t", "i", "n", "e">>,
       <<"m", "o", "d", "e", "l">>,
       <<"c", "o", "u", "r", "s", "e">>,
       <<"p", "u", "b", "l", "i", "s", "h", "e", "d">>,
       <<"r", "e", "q", "u", "e", "s", "t">>,
       <<"e", "n", "t", "r", "a", "n", "c", "e">> >>

notAllowedProgram ==
    << <<"d", "e", "g", "r", "e", "e">>,
       <<"p", "h", "d">>,
       <<"m", "s", "c">>,
       <<"m", ".", "s", "c">>,
       <<"s", "c", "h", "o", "l", "a", "r", "s", "h", "i", "p">>,
       <<"c", "a", "s">>,
       <<"u0938", "u094D", "u0928", "u093E", "u0924", "u0915", "u094B", "u0924", "u094D", "u0924", "u0930">>,
       <<"u0935", "u093F", "u0926", "u094D", "u092F", "u093E", "u0935", "u093E", "u0930", "u093F", "u0927", "u093F">>,
       <<"u092A", "u094D", "u0930", "u092E", "u0941", "u0916", " ", "u091B", "u0928", "u094C", "u091F">>,
       <<"u092C", "u094B", "u0932", "u092A", "u0924", "u094D", "u0930">> >>

keywords ==
    << <<"n", "o", "t", "i", "c", "e">>,
       <<"e", "x", "a", "m">>,
       <<"r", "e", "s", "u", "l", "t">>,
       <<"r", "o", "u", "t", "i", "n", "e">>,
       <<"e", "n", "t", "r", "a", "n", "c", "e">>,
       <<"u0938", "u0942", "u091A", "u0928", "u093E">>,
       <<"u0928", "u0924", "u093F", "u091C", "u093E">>,
       <<"u092B", "u093E", "u0930", "u093E", "u092E">>,
       <<"u092A", "u0930", "u0940", "u0915", "u094D", "u0937", "u093E">> >>

allowedPrograms_auto ==
    << <<"c", "s", "i", "t">>,
       <<"b", "i", "t">>,
       <<"b", "b", "a">>,
       <<"e", "n", "g", "i", "n", "e", "e", "r", "i", "n", "g">>,
       <<"b", "c", "a">>,
       <<"p", "h", "d">> >>

skippedLevels ==
    << <<"d", "e", "g", "r", "e", "e">>,
       <<"m", "a", "s", "t", "e", "r">> >>

(***************************************************************************)
(* Relevance filter                                                        *)
(***************************************************************************)
\* shouldPost of part_001 (1-210), part_002, part_004 and part_005: the
\* disallow list first, then the allow keywords or the allow programs.
shouldPost_lists(t0) ==
    LET t == toLowerCase(t0) IN
    IF some(notAllowedProgram, t) THEN FALSE
    ELSE some(importantKeywords, t) \/ some(allowedPrograms, t)

\* shouldPost of part_001 (212-464) and of both scripts of part_003: one
\* keyword list, no disallow list, no program list.
shouldPost_keywords(t0) ==
    LET t == toLowerCase(t0) IN some(keywords, t)

\* The title test written inline in main of automation.js (both scripts):
\* skip "degree"/"master", then require an allowed program.
titleFilter_auto(t0) ==
    LET titleLower == toLowerCase(t0) IN
    IF includes(titleLower, skippedLevels[1]) \/ includes(titleLower, skippedLevels[2])
    THEN FALSE
    ELSE some(allowedPrograms_auto, titleLower)

ListsRevs == {"p001_a", "p002", "p004", "p005"}
KeywordsRevs == {"p001_b", "p003_a", "p003_b"}
AutoRevs == {"auto_a", "auto_b"}

\* The filter a revision applies to a notice title in its main loop.
shouldPost(r, t) ==
    CASE r \in ListsRevs -> shouldPost_lists(t)
      [] r \in KeywordsRevs -> shouldPost_keywords(t)
      [] r \in AutoRevs -> titleFilter_auto(t)

(***************************************************************************)
(* Titles the filter is tried on: one to MaxWords words of the vocabulary, *)
(* joined by single spaces, and the two example titles of the spec.        *)
(***************************************************************************)
MaxWords == 2

Vocabulary ==
    << <<"C", "S", "I", "T">>,
       <<"E", "x", "a", "m">>,
       <<"R", "o", "u", "t", "i", "n", "e">>,
       <<"P", "u", "b", "l", "i", "s", "h", "e", "d">>,
       <<"P", "h", "D">>,
       <<"S", "c", "h", "o", "l", "a", "r", "s", "h", "i", "p">>,
       <<"N", "o", "t", "i", "c", "e">>,
       <<"M", "a", "s", "t", "e", "r">>,
       <<"B", "r", "o", "a", "d", "c", "a", "s", "t">>,
       <<"S", "y", "l", "l", "a", "b", "u", "s">>,
       <<"u0938", "u0942", "u091A", "u0928", "u093E">>,
       <<"u092C", "u094B", "u0932", "u092A", "u0924", "u094D", "u0930">> >>

TitleCsitExam == <<"C", "S", "I", "T", " ", "E", "x", "a", "m", " ", "R", "o", "u", "t", "i", "n", "e", " ", "P", "u", "b", "l", "i", "s", "h", "e", "d">>

TitlePhdNotice == <<"P", "h", "D", " ", "S", "c", "h", "o", "l", "a", "r", "s", "h", "i", "p", " ", "N", "o", "t", "i", "c", "e">>

RECURSIVE JoinWords(_)
JoinWords(ws) ==
    IF Len(ws) = 0 THEN <<>>
    ELSE IF Len(ws) = 1 THEN Vocabulary[ws[1]]
    ELSE Vocabulary[ws[1]] \o <<" ">> \o JoinWords(Tail(ws))

WordTitles ==
    { JoinWords(ws) : ws \in UNION { [1..n -> DOMAIN Vocabulary] : n \in 1..MaxWords } }

Titles == WordTitles \cup {TitleCsitExam, TitlePhdNotice}

FilterRevs == ListsRevs \cup KeywordsRevs \cup AutoRevs

InitFilter ==
    /\ rev \in FilterRevs
    /\ title \in Titles
    /\ verdict = "none"
    /\ IdleId
    /\ IdleRun
    /\ IdlePdf
    /\ IdleRest

\* main calls the filter on the title of the notice at hand.
Filter ==
    /\ verdict = "none"
    /\ verdict' = IF shouldPost(rev, title) THEN "accept" ELSE "reject"
    /\ UNCHANGED <<rev, title, varsId, varsRun, varsPdf, varsMedia, varsPub, varsRes,
                   varsNet>>

NextFilter == Filter

SpecFilter == InitFilter /\ [][NextFilter]_vars

(***************************************************************************)
(* Relevance filter: claims                                                *)
(***************************************************************************)
HasDisallowed(t) == some(notAllowedProgram, toLowerCase(t))

HasAllowed(t) ==
    some(importantKeywords, toLowerCase(t)) \/ some(allowedPrograms, toLowerCase(t))

\* C1: in the revisions the claim names (part_005, part_001 212-464), a title
\* whose lowercased form contains an entry of the disallow list is rejected by
\* shouldPost, whatever allow keywords or program codes it also contains.
C1_DisallowedIsRejected ==
    (rev \in {"p005", "p001_b"} /\ verdict # "none" /\ HasDisallowed(title))
        => verdict = "reject"

\* C2: in the revisions the claim names (part_005, part_003 1-260), a title with
\* no disallow-list entry and at least one allow keyword or allow program code
\* is accepted by shouldPost.
C2_AllowedIsAccepted ==
    (rev \in {"p005", "p003_a"} /\ verdict # "none"
        /\ ~HasDisallowed(title) /\ HasAllowed(title))
        => verdict = "accept"

\* C3: in the revisions the claim names (part_002, automation.js 190-410,
\* part_001 212-464), the filter accepts "CSIT Exam Routine Published" and
\* rejects "PhD Scholarship Notice".
C3_ExampleTitles ==
    (rev \in {"p002", "auto_b", "p001_b"} /\ verdict # "none")
        => /\ (title = TitleCsitExam => verdict = "accept")
           /\ (title = TitlePhdNotice => verdict = "reject")

(***************************************************************************)
(* Notice id                                                               *)
(*                                                                         *)
(* Here a unit of text is a space, a word or a whole absolute URL: two     *)
(* texts that agree unit by unit agree character by character.  An URL     *)
(* followed by an URL is again an absolute URL (the second one is part of  *)
(* the path of the first), which is what an anchor's href can hold.        *)
(***************************************************************************)
MaxTitleLen == 2
MaxLinkLen == 2

TextUnits == {"Result", " ", "https://x.np/a"}
UrlUnits == {"https://x.np/a", "https://y.np/b"}

SeqsUpTo(S, n) == UNION { [1..k -> S] : k \in 1..n }

\* String.prototype.trim, on spaces.
RECURSIVE trimStart(_)
trimStart(s) ==
    IF Len(s) > 0 /\ s[1] = " " THEN trimStart(Tail(s)) ELSE s

RECURSIVE trimEnd(_)
trimEnd(s) ==
    IF Len(s) > 0 /\ s[Len(s)] = " " THEN trimEnd(SubSeq(s, 1, Len(s) - 1)) ELSE s

trim(s) == trimEnd(trimStart(s))

\* scrapeNotices: the title is the trimmed text of the anchor, the link its
\* href; entries with an empty title or link are dropped.
scrapeNotices(texts, hrefs) ==
    { n \in { [title |-> trim(t), link |-> h] : t \in texts, h \in hrefs } :
        Len(n.title) > 0 /\ Len(n.link) > 0 }

\* The SHA-256 hex digest of a message, taken as collision-free: the digest
\* is determined by the message and determines it.
sha256(msg) == <<"sha256">> \o msg

\* part_001, part_002, part_003, part_004, part_005: sha256(title + link).
noticeId_concat(n) == sha256(n.title \o n.link)

\* automation.js 190-410: sha256(title.trim() + link.trim()).
noticeId_trim(n) == sha256(trim(n.title) \o trim(n.link))

\* automation.js 1-188: the scraper sets id = link.
noticeId_link(n) == n.link

noticeId(r, n) ==
    CASE r = "auto_a" -> noticeId_link(n)
      [] r = "auto_b" -> noticeId_trim(n)
      [] OTHER -> noticeId_concat(n)

IdRevs == {"p005", "auto_b"}

InitId ==
    /\ rev \in IdRevs
    /\ noticeA \in scrapeNotices(SeqsUpTo(TextUnits, MaxTitleLen), SeqsUpTo(UrlUnits, MaxLinkLen))
    /\ noticeB \in scrapeNotices(SeqsUpTo(TextUnits, MaxTitleLen), SeqsUpTo(UrlUnits, MaxLinkLen))
    /\ idA = NoId
    /\ idB = NoId
    /\ IdleFilter
    /\ IdleRun
    /\ IdlePdf
    /\ IdleRest

\* main meets the first notice and computes its id.
HashA ==
    /\ idA = NoId
    /\ idA' = noticeId(rev, noticeA)
    /\ UNCHANGED <<rev, noticeA, noticeB, idB, varsFilter, varsRun, varsPdf, varsMedia,
                   varsPub, varsRes, varsNet>>

\* main meets the second notice and computes its id.
HashB ==
    /\ idA # NoId
    /\ idB = NoId
    /\ idB' = noticeId(rev, noticeB)
    /\ UNCHANGED <<rev, noticeA, noticeB, idA, varsFilter, varsRun, varsPdf, varsMedia,
                   varsPub, varsRes, varsNet>>

NextId == HashA \/ HashB

SpecId == InitId /\ [][NextId]_vars

\* C4: in the revisions the claim names (part_005, automation.js 190-410), two
\* notices that differ in title or in link get different ids, the digest being
\* collision-free on its message.
C4_DistinctNoticesDistinctIds ==
    (idA # NoId /\ idB # NoId
        /\ (noticeA.title # noticeB.title \/ noticeA.link # noticeB.link))
        => idA # idB

(***************************************************************************)
(* The run: dedup store and main loop                                      *)
(***************************************************************************)
MAX_POSTED == 12

MaxNotices == 14
MaxStored == 11
MaxFaults == 1

Min(a, b) == IF a < b THEN a ELSE b
Max(a, b) == IF a > b THEN a ELSE b

\* Array.prototype.slice(start): a negative start counts from the end.
slice(s, start) ==
    LET from == IF start < 0 THEN Max(Len(s) + start, 0) ELSE Min(start, Len(s))
    IN  SubSeq(s, from + 1, Len(s))

\* A membership test that never finds the id: with it an id is recorded every
\* time its notice is seen, which C28 rules out.
storeIncludes_never(s, id) == FALSE

\* Array.prototype.includes on the store.
storeIncludes(s, id) == \E k \in DOMAIN s : s[k] = id

DigitChars == <<"0", "1", "2", "3", "4", "5", "6", "7", "8", "9">>

\* The decimal digits of a number below 100.
Digits(i) ==
    IF i < 10 THEN <<DigitChars[i + 1]>>
    ELSE <<DigitChars[(i \div 10) + 1], DigitChars[(i % 10) + 1]>>

TitleBcaExam == <<"B", "C", "A", " ", "E", "x", "a", "m">>
TitleMscNotice == <<"M", "S", "c", " ", "N", "o", "t", "i", "c", "e">>

\* What the two notice boards hold: notice i has its own link; all notices but
\* one carry a title every revision's filter accepts, and all but one have a
\* document on their detail page.
IneligibleNotices == {2}
NoMediaNotices == {4}

Notice(i) ==
    [title |-> IF i \in IneligibleNotices THEN TitleMscNotice ELSE TitleBcaExam,
     link |-> <<"https://iost.tu.edu.np/notices/">> \o Digits(i)]

hasMedia(i) == i \notin NoMediaNotices

\* The scraped lists: the first n notices, or the first three over and over,
\* or a notice that comes again after MAX_POSTED - 1 or MAX_POSTED others.
DistinctList(n) == [i \in 1..n |-> i]
PeriodicList(n) == [i \in 1..n |-> ((i - 1) % 3) + 1]
\* The first notice, k others, and the first notice again.
GapList(k) == [i \in 1..(k + 2) |-> IF i \in {1, k + 2} THEN 1 ELSE i + 3]
NoticeLists ==
    { DistinctList(n) : n \in 0..MaxNotices }
        \cup { PeriodicList(n) : n \in {4, MaxNotices} }
        \cup { GapList(k) : k \in {MAX_POSTED - 1, MAX_POSTED} }

\* Store files a run can find: none, an unreadable one, one that is not JSON,
\* one holding a JSON object, and lists of ids of earlier runs (ids of notices
\* no longer on the boards, then ids of the first notices of the boards).
OldIds(k) == [j \in 1..k |-> sha256(<<"old notice ">> \o Digits(j))]
KnownIds(r, k) == [i \in 1..k |-> noticeId(r, Notice(i))]
StoreFiles(r) ==
    { [kind |-> k, ids |-> <<>>] : k \in {"missing", "unreadable", "invalid", "object"} }
        \cup { [kind |-> "list", ids |-> OldIds(k) \o KnownIds(r, j)] :
                k \in {0, MaxStored}, j \in {0, 3} }

\* A load that ignores the store file: with it, a second run posts again what
\* the first run posted, which C9 rules out.
loadPosted_ignoresFile(f) == [raised |-> FALSE, isArray |-> TRUE, ids |-> <<>>]

\* Loading the store, part_001 (1-210), part_002, part_004, part_005 and
\* automation.js 190-410: existsSync, then JSON.parse under try/catch with the
\* Array.isArray test, then slice(-MAX_POSTED).
loadPosted_checked(f) ==
    [raised |-> FALSE, isArray |-> TRUE,
     ids |-> slice(IF f.kind = "list" THEN f.ids ELSE <<>>, 0 - MAX_POSTED)]

\* Loading the store, part_001 (212-464) and part_003: try { JSON.parse } catch {}
\* with no Array.isArray test; posted.slice is then called on whatever was
\* parsed, and a JSON object has no slice method (TypeError).
loadPosted_unchecked(f) ==
    IF f.kind = "object"
    THEN [raised |-> TRUE, isArray |-> FALSE, ids |-> <<>>]
    ELSE [raised |-> FALSE, isArray |-> TRUE,
          ids |-> slice(IF f.kind = "list" THEN f.ids ELSE <<>>, 0 - MAX_POSTED)]

\* Loading the store, automation.js 1-188: existsSync, then JSON.parse with no
\* try/catch, no Array.isArray test and no slice.
loadPosted_bare(f) ==
    CASE f.kind \in {"unreadable", "invalid"} ->
            [raised |-> TRUE, isArray |-> TRUE, ids |-> <<>>]
      [] f.kind = "object" -> [raised |-> FALSE, isArray |-> FALSE, ids |-> <<>>]
      [] f.kind = "list" -> [raised |-> FALSE, isArray |-> TRUE, ids |-> f.ids]
      [] OTHER -> [raised |-> FALSE, isArray |-> TRUE, ids |-> <<>>]

loadPosted(r, f) ==
    CASE r = "auto_a" -> loadPosted_bare(f)
      [] r \in KeywordsRevs -> loadPosted_unchecked(f)
      [] OTHER -> loadPosted_checked(f)

\* A record step that keeps the oldest MAX_POSTED ids instead of the latest:
\* the behaviour C6 rules out.
recordPosted_keepFirst(s, id) == SubSeq(Append(s, id), 1, Min(Len(s) + 1, MAX_POSTED))

\* Recording an id, part_005 262-263 (and part_001, part_002, part_003,
\* part_004): push, then slice(-MAX_POSTED).
recordPosted_slice(s, id) == slice(Append(s, id), 0 - MAX_POSTED)

\* Recording an id, automation.js 401-404: push, then slice(-MAX_POSTED) when
\* the length is over MAX_POSTED.
recordPosted_ifOver(s, id) ==
    LET t == Append(s, id)
    IN  IF Len(t) > MAX_POSTED THEN slice(t, 0 - MAX_POSTED) ELSE t

\* Recording an id, automation.js 182: push only.
recordPosted_push(s, id) == Append(s, id)

recordPosted(r, s, id) ==
    CASE r = "auto_a" -> recordPosted_push(s, id)
      [] r = "auto_b" -> recordPosted_ifOver(s, id)
      [] OTHER -> recordPosted_slice(s, id)

\* fs.writeFileSync(POSTED_FILE, JSON.stringify(posted)): the file then holds
\* the JSON text of posted.
writePosted(s, isArray) ==
    IF isArray THEN [kind |-> "list", ids |-> s] ELSE [kind |-> "object", ids |-> <<>>]

\* Revisions that write the store file after every record step; the two
\* scripts of automation.js write it once, after the loops.
WritesPerRecord(r) == r \notin AutoRevs

\* Revisions whose loop body is inside try/catch (part_003 234-254).
CatchesPerNotice(r) == r = "p003_a"

(***************************************************************************)
(* The run: actions                                                        *)
(***************************************************************************)
RunRevs == {"p005", "p003_a", "p004", "auto_a", "auto_b"}

\* Revisions whose main launches one browser for the run and closes it after
\* the loops (part_005 225 / 271, part_003 216 / 258, part_004 257 / 301);
\* automation.js launches and closes one inside each scrape.
LaunchesInMain(r) == r \notin AutoRevs

\* Revisions whose loop body ends with the wait of POST_GAP_MS (part_005
\* 266-267, part_003 248-249); part_004 289-298 and automation.js have none.
WaitsAfterPost(r) == r \in {"p005", "p003_a"}

\* What main of part_005 has as result (116-131): "image" for a post with
\* media attached, "text" for a post without, false otherwise.
mainResult(m, answer, uploaded) ==
    IF answer = "ok"
    THEN (IF m = "assets" /\ uploaded THEN "image" ELSE "text")
    ELSE "false"

\* Counters where a failed post is counted as processed but in none of the
\* three result counters: the behaviour C30 rules out.
countResult_dropsFailed(c, result) ==
    [totalNotices |-> c.totalNotices + 1,
     postedWithImages |-> c.postedWithImages + (IF result = "image" THEN 1 ELSE 0),
     postedTextOnly |-> c.postedTextOnly + (IF result = "text" THEN 1 ELSE 0),
     failedPosts |-> c.failedPosts]

\* part_005 257-261: the counter of the result, then totalNotices.
countResult(c, result) ==
    [totalNotices |-> c.totalNotices + 1,
     postedWithImages |-> c.postedWithImages + (IF result = "image" THEN 1 ELSE 0),
     postedTextOnly |-> c.postedTextOnly + (IF result = "text" THEN 1 ELSE 0),
     failedPosts |-> c.failedPosts
                        + (IF result \notin {"image", "text"} THEN 1 ELSE 0)]

\* Only part_005 has the counters.
counted(r, c, result) == IF r = "p005" THEN countResult(c, result) ELSE c

InitRun ==
    /\ rev \in RunRevs
    /\ file \in StoreFiles(rev)
    /\ notices \in NoticeLists
    /\ posted = <<>> /\ postedIsArray = TRUE
    /\ pc = "load" /\ raisedAt = "none" /\ runNo = 1
    /\ idx = 0 /\ media = "none"
    /\ postedIn = [r \in 1..2 |-> {}]
    /\ prevPosted = <<>> /\ lastId = NoId /\ lastResult = "none"
    /\ wrote = FALSE /\ writeFailed = FALSE /\ faults = 0
    /\ gap = "none" /\ gapSkipped = FALSE /\ browserOpen = FALSE
    /\ postedAgain = {} /\ unrecorded = {} /\ summary = NoSummary /\ records = 0
    /\ IdleFilter /\ IdleId /\ IdlePdf /\ IdleRest

FrameRun ==
    UNCHANGED <<rev, varsFilter, varsId, varsPdf, varsMedia, varsPub, varsRes,
                varsNet, notices, runNo>>

\* The steps that make no create-post call, no record step and no wait.
NoPostStep ==
    UNCHANGED <<gap, gapSkipped, postedAgain, unrecorded, summary, records>>

\* The notice the loop is at, and its id.
cur == Notice(notices[idx + 1])
curId == noticeId(rev, cur)
AtNotice == pc = "loop" /\ idx < Len(notices)
Eligible ==
    /\ AtNotice
    /\ postedIsArray
    /\ ~storeIncludes(posted, curId)
    /\ shouldPost(rev, cur.title)

\* Module top level: the store is loaded when the script starts.
LoadPosted ==
    /\ pc = "load"
    /\ LET l == loadPosted(rev, file) IN
         /\ posted' = l.ids
         /\ postedIsArray' = l.isArray
         /\ pc' = IF l.raised THEN "raised" ELSE "loop"
         /\ raisedAt' = IF l.raised THEN "load" ELSE "none"
         /\ browserOpen' = (LaunchesInMain(rev) /\ ~l.raised)
    /\ UNCHANGED <<file, idx, media, postedIn, prevPosted, lastId, lastResult, wrote,
                   writeFailed, faults>>
    /\ NoPostStep
    /\ FrameRun

\* main: posted.includes(id) on a value that is no array (TypeError, uncaught).
DedupRaises ==
    /\ AtNotice
    /\ ~postedIsArray
    /\ pc' = "raised"
    /\ raisedAt' = "dedup"
    /\ UNCHANGED <<file, posted, postedIsArray, idx, media, postedIn, prevPosted,
                   lastId, lastResult, wrote, writeFailed, faults, browserOpen>>
    /\ NoPostStep
    /\ FrameRun

\* main: continue, for a notice whose id is stored or whose title is filtered out.
SkipNotice ==
    /\ AtNotice
    /\ postedIsArray
    /\ storeIncludes(posted, curId) \/ ~shouldPost(rev, cur.title)
    /\ idx' = idx + 1
    /\ UNCHANGED <<file, posted, postedIsArray, pc, raisedAt, media, postedIn,
                   prevPosted, lastId, lastResult, wrote, writeFailed, faults,
                   browserOpen>>
    /\ NoPostStep
    /\ FrameRun

\* What media resolution gives when nothing fails:
\*   part_005 249-253: the pages of the document, or no image (text-only post);
\*   part_003 238-239: the media, or null (the notice is skipped);
\*   part_004 280-287: the pages of the document, or a screenshot;
\*   automation.js 355-370: the document's first page or a screenshot;
\*   automation.js 129-136: the pages of the document; pdfToImages throws on a
\*     link that is no document and handleNoticeMedia catches it ("failed").
resolved(r, i) ==
    CASE r \in {"auto_b", "p004"} -> "assets"
      [] r = "auto_a" -> IF hasMedia(i) THEN "assets" ELSE "failed"
      [] OTHER -> IF hasMedia(i) THEN "assets" ELSE "none"

\* main: media resolution for an eligible notice.
ResolveMedia ==
    /\ Eligible
    /\ LET m == resolved(rev, notices[idx + 1]) IN
         IF CatchesPerNotice(rev) /\ m = "none"
         THEN /\ idx' = idx + 1
              /\ UNCHANGED <<pc, media>>
         ELSE /\ pc' = "publish"
              /\ media' = m
              /\ UNCHANGED idx
    /\ UNCHANGED <<file, posted, postedIsArray, raisedAt, postedIn, prevPosted,
                   lastId, lastResult, wrote, writeFailed, faults, browserOpen>>
    /\ NoPostStep
    /\ FrameRun

\* main: media resolution throws (page.goto, the document fetch, the parse, the
\* renderer).  part_005 and automation.js 190-410 let it end the run; part_003
\* catches it in the loop and goes on; automation.js 1-188 catches it in
\* handleNoticeMedia and goes on to record the notice.
ResolveRaises ==
    /\ Eligible
    /\ faults < MaxFaults
    /\ faults' = faults + 1
    /\ CASE CatchesPerNotice(rev) ->
              /\ idx' = idx + 1
              /\ UNCHANGED <<pc, raisedAt, media>>
         [] rev = "auto_a" ->
              /\ pc' = "publish"
              /\ media' = "failed"
              /\ UNCHANGED <<idx, raisedAt>>
         [] OTHER ->
              /\ pc' = "raised"
              /\ raisedAt' = "resolve"
              /\ UNCHANGED <<idx, media>>
    /\ UNCHANGED <<file, posted, postedIsArray, postedIn, prevPosted, lastId, lastResult,
                   wrote, writeFailed, browserOpen>>
    /\ NoPostStep
    /\ FrameRun

\* The notices with a create-post call, after the publish step of this notice.
withPost(called) ==
    IF called
    THEN [postedIn EXCEPT ![runNo] = @ \cup {notices[idx + 1]}]
    ELSE postedIn

\* The notices with more than one create-post call in this run, after the
\* publish step of this notice.
againWith(called) ==
    IF called /\ notices[idx + 1] \in postedIn[runNo]
    THEN postedAgain \cup {notices[idx + 1]}
    ELSE postedAgain

\* The wait between posts: a create-post call while the wait after the call
\* before it is due; and what is due after this notice.
skippedWith(called) == gapSkipped \/ (called /\ gap = "due")
gapAfter(called, waited) ==
    IF called THEN (IF waited THEN "waited" ELSE "due") ELSE gap

\* What the publish step of a notice gave: no call when media resolution
\* failed in automation.js 1-188 (the catch of handleNoticeMedia), else the
\* answer to the create-post call.
postResult(m, answer) == IF m = "failed" THEN "nocall" ELSE answer

\* main: publish, then record (push, truncate, and in the revisions that do so
\* write the file), then the wait between posts.  No revision of main reads
\* what the publish step gave before it records the id: part_005 257-259 only
\* counts it, part_003 242 and automation.js 181 / 399 drop it.  A create-post
\* call that is rejected or fails inside the publisher's try/catch is a
\* failure of the environment.
PublishAndRecord ==
    /\ pc = "publish"
    /\ \E answer \in {"ok", "failed"}, uploaded \in BOOLEAN :
         /\ answer = "failed" => media # "failed"
         /\ ~uploaded => (media = "assets" /\ rev = "p005")
         /\ faults' = faults + (IF answer = "failed" THEN 1 ELSE 0)
                              + (IF uploaded THEN 0 ELSE 1)
         /\ faults' <= MaxFaults
         /\ lastResult' = postResult(media, answer)
         /\ summary' = counted(rev, summary, mainResult(media, answer, uploaded))
    /\ postedIn' = withPost(media # "failed")
    /\ postedAgain' = againWith(media # "failed")
    /\ gapSkipped' = skippedWith(media # "failed")
    /\ gap' = gapAfter(media # "failed", WaitsAfterPost(rev))
    /\ records' = records + 1
    /\ prevPosted' = posted
    /\ lastId' = curId
    /\ posted' = recordPosted(rev, posted, curId)
    /\ IF WritesPerRecord(rev)
       THEN /\ file' = writePosted(posted', TRUE)
            /\ wrote' = TRUE
       ELSE UNCHANGED <<file, wrote>>
    /\ idx' = idx + 1
    /\ pc' = "loop"
    /\ media' = "none"
    /\ UNCHANGED <<postedIsArray, raisedAt, writeFailed, browserOpen, unrecorded>>
    /\ FrameRun

\* main: the publish step throws (part_003 182-196 and automation.js 229-241
\* have no try/catch around their requests), before or at the create-post
\* call.  part_003 catches it in the loop; automation.js 190-410 does not.
PublishRaises ==
    /\ pc = "publish"
    /\ rev \in {"p003_a", "auto_b"}
    /\ faults < MaxFaults
    /\ faults' = faults + 1
    /\ \E called \in BOOLEAN :
         /\ rev = "auto_b" => called
         /\ postedIn' = withPost(called)
         /\ postedAgain' = againWith(called)
         /\ gapSkipped' = skippedWith(called)
         /\ gap' = gapAfter(called, FALSE)
         /\ unrecorded' = IF called THEN unrecorded \cup {notices[idx + 1]}
                                    ELSE unrecorded
    /\ IF CatchesPerNotice(rev)
       THEN /\ idx' = idx + 1
            /\ pc' = "loop"
            /\ media' = "none"
            /\ UNCHANGED raisedAt
       ELSE /\ pc' = "raised"
            /\ raisedAt' = "publish"
            /\ UNCHANGED <<idx, media>>
    /\ UNCHANGED <<file, posted, postedIsArray, prevPosted, lastId, lastResult, wrote,
                   writeFailed, browserOpen, summary, records>>
    /\ FrameRun

\* main: the post is made and the id pushed, and writeFileSync throws.
\* part_005 lets it end the run; part_003 catches it in the loop.
PersistRaises ==
    /\ pc = "publish"
    /\ WritesPerRecord(rev)
    /\ faults < MaxFaults
    /\ faults' = faults + 1
    /\ postedIn' = withPost(TRUE)
    /\ postedAgain' = againWith(TRUE)
    /\ gapSkipped' = skippedWith(TRUE)
    /\ gap' = gapAfter(TRUE, FALSE)
    /\ summary' = counted(rev, summary, mainResult(media, "ok", TRUE))
    /\ records' = records + 1
    /\ prevPosted' = posted
    /\ lastId' = curId
    /\ lastResult' = "ok"
    /\ posted' = recordPosted(rev, posted, curId)
    /\ writeFailed' = TRUE
    /\ IF CatchesPerNotice(rev)
       THEN /\ idx' = idx + 1
            /\ pc' = "loop"
            /\ media' = "none"
            /\ UNCHANGED raisedAt
       ELSE /\ pc' = "raised"
            /\ raisedAt' = "persist"
            /\ UNCHANGED <<idx, media>>
    /\ UNCHANGED <<file, postedIsArray, wrote, browserOpen, unrecorded>>
    /\ FrameRun

\* main, after the loops: automation.js writes the store file here; the other
\* revisions close the browser.
Finish ==
    /\ pc = "loop"
    /\ idx = Len(notices)
    /\ pc' = "done"
    /\ IF WritesPerRecord(rev)
       THEN UNCHANGED <<file, wrote>>
       ELSE /\ file' = writePosted(posted, postedIsArray)
            /\ wrote' = TRUE
    /\ browserOpen' = FALSE
    /\ UNCHANGED <<posted, postedIsArray, raisedAt, idx, media, postedIn,
                   prevPosted, lastId, lastResult, writeFailed, faults>>
    /\ NoPostStep
    /\ FrameRun

\* automation.js 186 / 408: the write after the loops throws.
FinalWriteRaises ==
    /\ pc = "loop"
    /\ idx = Len(notices)
    /\ ~WritesPerRecord(rev)
    /\ faults < MaxFaults
    /\ faults' = faults + 1
    /\ writeFailed' = TRUE
    /\ pc' = "raised"
    /\ raisedAt' = "persist"
    /\ UNCHANGED <<file, posted, postedIsArray, idx, media, postedIn, prevPosted,
                   lastId, lastResult, wrote, browserOpen>>
    /\ NoPostStep
    /\ FrameRun

\* The script is started again (the next scheduled run): a new process, the
\* same notice boards, the store file as the first run left it.
Rerun ==
    /\ pc \in {"done", "raised"}
    /\ runNo = 1
    /\ runNo' = 2
    /\ pc' = "load"
    /\ raisedAt' = "none"
    /\ posted' = <<>>
    /\ postedIsArray' = TRUE
    /\ idx' = 0
    /\ media' = "none"
    /\ prevPosted' = <<>>
    /\ lastId' = NoId
    /\ lastResult' = "none"
    /\ wrote' = FALSE
    /\ gap' = "none"
    /\ gapSkipped' = FALSE
    /\ browserOpen' = FALSE
    /\ postedAgain' = {}
    /\ unrecorded' = {}
    /\ summary' = NoSummary
    /\ records' = 0
    /\ UNCHANGED <<rev, varsFilter, varsId, varsPdf, varsMedia, varsPub, varsRes,
                   varsNet, notices, file, postedIn, writeFailed, faults>>

Next ==
    \/ LoadPosted
    \/ DedupRaises
    \/ SkipNotice
    \/ ResolveMedia
    \/ ResolveRaises
    \/ PublishAndRecord
    \/ PublishRaises
    \/ PersistRaises
    \/ Finish
    \/ FinalWriteRaises
    \/ Rerun

Spec == InitRun /\ [][Next]_vars

(***************************************************************************)
(* The run: claims                                                         *)
(***************************************************************************)
\* C5: in the revisions the claim names (part_005, automation.js 1-188), once
\* the store is loaded and after any number of record steps, the in-memory
\* store holds at most MAX_POSTED ids, and so does the store file once the run
\* has written it.
C5_StoreAtMostCap ==
    (rev \in {"p005", "auto_a"} /\ pc # "load" /\ raisedAt # "load")
        => /\ Len(posted) <= MAX_POSTED
           /\ wrote => Len(file.ids) <= MAX_POSTED

\* C6: in the revisions the claim names (part_005, automation.js 190-410),
\* after a record step of id on the store s the store is the last MAX_POSTED
\* elements of s followed by id: id is its last element, the elements before
\* it are the latest ones of s in their order, and nothing but the oldest
\* elements of s is dropped.
C6_RecordKeepsLatest ==
    (rev \in {"p005", "auto_b"} /\ lastId # NoId)
        => /\ Len(posted) = Min(Len(prevPosted) + 1, MAX_POSTED)
           /\ posted[Len(posted)] = lastId
           /\ \A i \in 1..(Len(posted) - 1) :
                posted[i] = prevPosted[Len(prevPosted) - (Len(posted) - 1) + i]

\* C6 witness: a record step on a full store, which drops its oldest id.
C6_RecordOnFullStore ==
    /\ rev \in {"p005", "auto_b"}
    /\ lastId # NoId
    /\ Len(prevPosted) = MAX_POSTED
    /\ posted[1] = prevPosted[2]

\* C7: in the revisions the claim names (part_005, part_003 1-260,
\* automation.js 1-188), loading the store never raises, and a store file that
\* is missing, unreadable, not JSON or not a list leaves the run with an empty
\* store.
C7_LoadNeverRaises ==
    rev \in {"p005", "p003_a", "auto_a"}
        => /\ raisedAt # "load"
           /\ (pc = "loop" /\ idx = 0 /\ file.kind # "list")
                => (postedIsArray /\ posted = <<>>)

\* C8: in the revisions the claim names (part_005, automation.js 190-410),
\* whenever the loop is between two notices after a record step, the store
\* file holds exactly the in-memory store.
C8_FileEqualsStoreBetweenNotices ==
    (rev \in {"p005", "auto_b"} /\ pc = "loop" /\ lastId # NoId)
        => file = [kind |-> "list", ids |-> posted]

\* C9 as stated: in part_005, when no write of the store file failed, no notice
\* gets a create-post call in both of two successive runs over the same list
\* of notices, whatever the length of the list.
C9_NoNoticePostedInBothRuns ==
    (rev = "p005" /\ ~writeFailed)
        => postedIn[1] \cap postedIn[2] = {}

\* C9 as amended: the same, for a list of at most MAX_POSTED notices.
C9_NoNoticePostedInBothRunsUpToCap ==
    (rev = "p005" /\ ~writeFailed /\ Len(notices) <= MAX_POSTED)
        => postedIn[1] \cap postedIn[2] = {}

\* C9 witness: the second run is over, on a list of MAX_POSTED notices of which
\* the first run posted some, and the second run posted one the first had not.
C9_SecondRunDone ==
    /\ rev = "p005"
    /\ ~writeFailed
    /\ runNo = 2
    /\ pc = "done"
    /\ Len(notices) = MAX_POSTED
    /\ Cardinality(postedIn[1]) > 1
    /\ postedIn[2] # {}

(***************************************************************************)
(* pdfToImages: a document link turned into page images                    *)
(***************************************************************************)
\* The largest number of images of one post: the literal 10 of
\* Math.min(totalPages, 10) in part_005 and of totalPages > 10 in part_002.
PageCap == 10

MaxPages == 12

PdfRevs == {"p005", "p002", "p004"}

\* What the link may serve: a document of 1..MaxPages pages, a body that is
\* no PDF, or an error response.
Documents ==
    { [kind |-> "valid", pages |-> n] : n \in 1..MaxPages }
        \cup { [kind |-> k, pages |-> 0] : k \in {"invalid", "unavailable"} }

\* What the renderer may do: write every page, or on one page either throw or
\* return without having written the file.
RenderFaults(d) ==
    {NoFault} \cup { [page |-> p, kind |-> k] : p \in 1..d.pages, k \in {"nofile", "throws"} }

\* The upper bound of the loop over pages: part_005 187-189 takes
\* Math.min(totalPages, 10); part_002 212 and part_004 185 take totalPages.
pagesToProcess(r, n) == IF r = "p005" THEN Min(n, PageCap) ELSE n

\* What the loop body does with the path of page i: part_005 205 pushes it when
\* the file exists; part_002 224 and part_004 198 push it in any case.
pushImage(r, imgs, i, exists) ==
    IF r = "p005" /\ ~exists THEN imgs ELSE Append(imgs, i)

InitPdf ==
    /\ rev \in PdfRevs
    /\ doc \in Documents
    /\ renderFault \in RenderFaults(doc)
    /\ pdfPc = "fetch" /\ pdfRaisedAt = "none"
    /\ totalPages = 0 /\ pageNo = 0 /\ images = <<>> /\ skipImages = FALSE
    /\ IdleFilter /\ IdleId /\ IdleRun /\ IdleRest

FramePdf ==
    UNCHANGED <<rev, varsFilter, varsId, varsRun, varsMedia, varsPub, varsRes, varsNet,
                doc, renderFault>>

\* fetch, the res.ok test, the write of the PDF file, PDFDocument.load and
\* getPageCount; in part_002 a document of more than 10 pages is returned from
\* here with skipImages set and no image.
DownloadPdf ==
    /\ pdfPc = "fetch"
    /\ doc.kind = "valid"
    /\ totalPages' = doc.pages
    /\ IF rev = "p002" /\ doc.pages > PageCap
       THEN /\ skipImages' = TRUE
            /\ pdfPc' = "done"
            /\ pageNo' = pageNo
       ELSE /\ skipImages' = FALSE
            /\ pdfPc' = "pages"
            /\ pageNo' = 1
    /\ UNCHANGED <<images, pdfRaisedAt>>
    /\ FramePdf

\* The link serves no document: part_005 and part_002 throw on !res.ok;
\* part_004 has no such test and PDFDocument.load throws on the body, as it
\* does in every revision on a body that is no PDF.
DownloadRaises ==
    /\ pdfPc = "fetch"
    /\ doc.kind # "valid"
    /\ pdfPc' = "raised"
    /\ pdfRaisedAt' = IF doc.kind = "unavailable" /\ rev # "p004" THEN "fetch" ELSE "load"
    /\ UNCHANGED <<totalPages, pageNo, images, skipImages>>
    /\ FramePdf

\* One turn of the loop: converter(i), then the push.
ConvertPage ==
    /\ pdfPc = "pages"
    /\ pageNo <= pagesToProcess(rev, totalPages)
    /\ ~(renderFault.page = pageNo /\ renderFault.kind = "throws")
    /\ images' = pushImage(rev, images, pageNo,
                           ~(renderFault.page = pageNo /\ renderFault.kind = "nofile"))
    /\ pageNo' = pageNo + 1
    /\ UNCHANGED <<pdfPc, pdfRaisedAt, totalPages, skipImages>>
    /\ FramePdf

\* converter(i) throws: nothing in pdfToImages catches it.
ConvertRaises ==
    /\ pdfPc = "pages"
    /\ pageNo <= pagesToProcess(rev, totalPages)
    /\ renderFault.page = pageNo /\ renderFault.kind = "throws"
    /\ pdfPc' = "raised"
    /\ pdfRaisedAt' = "convert"
    /\ UNCHANGED <<totalPages, pageNo, images, skipImages>>
    /\ FramePdf

\* The loop is over: unlink of the PDF file, return of the list.
ReturnImages ==
    /\ pdfPc = "pages"
    /\ pageNo > pagesToProcess(rev, totalPages)
    /\ pdfPc' = "done"
    /\ UNCHANGED <<pdfRaisedAt, totalPages, pageNo, images, skipImages>>
    /\ FramePdf

NextPdf ==
    \/ DownloadPdf
    \/ DownloadRaises
    \/ ConvertPage
    \/ ConvertRaises
    \/ ReturnImages

SpecPdf == InitPdf /\ [][NextPdf]_vars

\* C10: in the revisions the claim names (part_005, part_002, part_004), when
\* pdfToImages returns for a valid document of n pages, the list it returns
\* has exactly min(n, 10) elements and its i-th element is the image of page i.
C10_OneAssetPerPageUpToCap ==
    (rev \in PdfRevs /\ pdfPc = "done" /\ doc.kind = "valid")
        => /\ Len(images) = Min(doc.pages, PageCap)
           /\ \A i \in 1..Len(images) : images[i] = i

(***************************************************************************)
(* Media resolution: what main has in hand for a detail page                *)
(***************************************************************************)
\* part_003 144: an embedded image qualifies when both sides are over 200 px
\* and its src has an image extension.
MinImageSide == 200

MediaRevs == {"p004", "p003_a", "p005"}

qualifies(g) == g.w > MinImageSide /\ g.h > MinImageSide /\ g.ext

\* Embedded images of a detail page: none, or one of a size at or just over
\* the threshold, with or without an image extension.
EmbeddedImages ==
    {NoDetail.img}
        \cup { [w |-> w, h |-> h, ext |-> e] :
                 w \in {MinImageSide, MinImageSide + 1},
                 h \in {MinImageSide, MinImageSide + 1}, e \in BOOLEAN }

\* Detail pages: a document shown in an iframe and / or linked by an anchor
\* whose href holds ".pdf" (of a few or of more than PageCap pages), or no
\* document; with or without an embedded image.
Details ==
    { [iframePdf |-> i, anchorPdf |-> a, pages |-> n, img |-> g] :
        i \in BOOLEAN, a \in BOOLEAN, n \in {0, 1, PageCap + 1}, g \in EmbeddedImages }

WellFormedDetail(d) == (d.pages > 0) <=> (d.iframePdf \/ d.anchorPdf)

\* What media resolution gives when no request fails:
\*   part_004 280-287: the pages of the linked document, else one screenshot;
\*   part_005 249-253: the pages of the linked document, else no asset;
\*   part_003 98-168: the pages of the document of the iframe or of the
\*     download anchor, else the largest qualifying image, else null.
resolveDetail(r, d) ==
    CASE r = "p004" ->
            IF d.anchorPdf
            THEN [kind |-> "pages", count |-> pagesToProcess(r, d.pages)]
            ELSE [kind |-> "screenshot", count |-> 1]
      [] r = "p005" ->
            IF d.anchorPdf
            THEN [kind |-> "pages", count |-> pagesToProcess(r, d.pages)]
            ELSE [kind |-> "empty", count |-> 0]
      [] OTHER ->
            IF d.iframePdf \/ d.anchorPdf
            THEN [kind |-> "pages", count |-> Min(d.pages, PageCap)]
            ELSE IF qualifies(d.img)
                 THEN [kind |-> "image", count |-> 1]
                 ELSE [kind |-> "null", count |-> 0]

InitMedia ==
    /\ rev \in MediaRevs
    /\ detail \in { d \in Details : WellFormedDetail(d) }
    /\ mediaPc = "look"
    /\ mediaResult = NoMedia
    /\ IdleFilter /\ IdleId /\ IdleRun /\ IdlePdf /\ IdlePub /\ IdleRes
    /\ IdleNet

\* main resolves the media of the notice at hand.
ResolveDetail ==
    /\ mediaPc = "look"
    /\ mediaResult' = resolveDetail(rev, detail)
    /\ mediaPc' = "done"
    /\ UNCHANGED <<rev, varsFilter, varsId, varsRun, varsPdf, varsPub, varsRes, varsNet,
                   detail>>

NextMedia == ResolveDetail

SpecMedia == InitMedia /\ [][NextMedia]_vars

\* A detail page with no document link and no qualifying embedded image.
BareDetail ==
    ~detail.iframePdf /\ ~detail.anchorPdf /\ ~qualifies(detail.img)

\* C11: in the revisions the claim names (part_004, part_003 1-260, part_005),
\* media resolution of a detail page with no document link and no qualifying
\* embedded image gives a screenshot, and exactly one asset.
C11_BarePageGivesOneScreenshot ==
    (rev \in MediaRevs /\ mediaPc = "done" /\ BareDetail)
        => (mediaResult.kind = "screenshot" /\ mediaResult.count = 1)

(***************************************************************************)
(* The publish step: uploads, the create-post call, the cleanup            *)
(*                                                                         *)
(* The step is the publisher main calls for a notice together with the     *)
(* cleanup main does right after the call, where the cleanup is there.     *)
(***************************************************************************)
\* part_005 55 (retries = 3), part_002 69 (maxRetries = 3), part_004 55
\* (attempt <= 3).
maxRetries == 3

MaxAssets == 2

PublishRevs == {"p005", "p002", "p004", "p003_a", "auto_a"}

\* Revisions with a retry loop around the upload of an asset.
RetryRevs == {"p005", "p002", "p004"}

\* The image file of asset k, and the copy part_002 57-66 makes of it.
Original(k) == <<k, "png">>
Resized(k) == <<k, "resized">>
Originals(n) == { Original(k) : k \in 1..n }

\* A retry loop that goes one attempt further than maxRetries: the behaviour
\* C14 rules out.
attemptsOf_oneMore(r) == maxRetries + 1

\* The attempts the upload of one asset may take: uploadImage of part_003
\* 171-180 makes one request, the others loop up to maxRetries.
attemptsOf(r) == IF r = "p003_a" THEN 1 ELSE maxRetries

\* A publisher that reports a created post by the assets it was handed rather
\* than by the media references it attached: the behaviour C16 rules out.
publishOutcome_byAssets(result, nMedia) ==
    IF result = "ok" THEN (IF imagePaths # <<>> THEN "image" ELSE "text") ELSE "false"

\* The value postToFBSinglePost of part_005 returns (116-131); the publishers
\* of the other revisions return nothing.
publishOutcome(result, nMedia) ==
    IF result = "ok" THEN (IF nMedia > 0 THEN "image" ELSE "text") ELSE "false"

\* The assets handed over and their files: every file is on disk, or one of
\* them is not (part_002, part_004 and automation.js push a page's path
\* without looking whether the renderer wrote the file).
InitPublish ==
    /\ rev \in PublishRevs
    /\ \E n \in 0..MaxAssets :
         /\ imagePaths = [k \in 1..n |-> k]
         /\ \E gone \in {{}} \cup { {Original(k)} : k \in 1..n } :
              disk = Originals(n) \ gone
         /\ attempts = [k \in 1..n |-> 0]
         /\ ended = [k \in 1..n |-> "none"]
         /\ pubPc = IF n = 0 THEN "post" ELSE "upload"
         /\ assetNo = IF n = 0 THEN 0 ELSE 1
         /\ currentImage = IF n = 0 THEN NoFile ELSE Original(1)
    /\ attempt = 0
    /\ mediaIds = <<>>
    /\ uploadCalls = 0 /\ createCalls = 0 /\ createResult = "none"
    /\ attached = 0 /\ outcome = "none"
    /\ IdleFilter /\ IdleId /\ IdleRun /\ IdlePdf /\ IdleMedia /\ IdleRes
    /\ IdleNet

FramePublish ==
    UNCHANGED <<rev, varsFilter, varsId, varsRun, varsPdf, varsMedia, varsRes, varsNet,
                imagePaths>>

\* The loop over the assets moves on to the next asset, or is over.
AssetEnds(how) ==
    /\ ended' = [ended EXCEPT ![assetNo] = how]
    /\ attempt' = 0
    /\ IF assetNo < Len(imagePaths)
       THEN /\ assetNo' = assetNo + 1
            /\ currentImage' = Original(assetNo + 1)
            /\ pubPc' = "upload"
       ELSE /\ assetNo' = assetNo
            /\ currentImage' = NoFile
            /\ pubPc' = IF rev = "auto_a" THEN "done" ELSE "post"

\* One upload call for the asset at hand was made.
CountUpload ==
    /\ uploadCalls' = uploadCalls + 1
    /\ attempts' = [attempts EXCEPT ![assetNo] = @ + 1]

\* One turn of the upload loop for the asset at hand.
\*   part_005 57-85, part_002 73-106: existsSync false returns null with no
\*     request; a request that gives no id or throws counts as a failed
\*     attempt; part_002 makes the resized copy after the first failed attempt
\*     and reads it from then on.
\*   part_004 55-96: no existsSync test; every failure is caught.
\*   part_003 171-180, 184-187: one request, no retry; no id gives null.
UploadAttempt ==
    /\ pubPc = "upload"
    /\ rev \in RetryRevs \cup {"p003_a"}
    /\ IF rev \in {"p005", "p002"} /\ currentImage \notin disk
       THEN /\ AssetEnds("missing")
            /\ UNCHANGED <<disk, mediaIds, attempts, uploadCalls>>
       ELSE \E o \in {"id", "rejected", "threw"} :
              /\ currentImage \notin disk => (rev = "p004" /\ o = "threw")
              /\ rev = "p003_a" => o # "threw"
              /\ CountUpload
              /\ IF o = "id"
                 THEN /\ mediaIds' = Append(mediaIds, assetNo)
                      /\ AssetEnds("id")
                      /\ UNCHANGED disk
                 ELSE /\ mediaIds' = mediaIds
                      /\ disk' = IF rev = "p002" /\ attempt = 0
                                 THEN disk \cup {Resized(assetNo)}
                                 ELSE disk
                      /\ IF attempt + 1 >= attemptsOf(rev)
                         THEN AssetEnds("null")
                         ELSE /\ attempt' = attempt + 1
                              /\ currentImage' = IF rev = "p002" /\ attempt = 0
                                                 THEN Resized(assetNo)
                                                 ELSE currentImage
                              /\ UNCHANGED <<assetNo, pubPc, ended>>
    /\ UNCHANGED <<createCalls, createResult, attached, outcome>>
    /\ FramePublish

\* part_002 96-103: the first attempt has failed and sharp throws while making
\* the resized copy; the throw is inside the catch block and leaves
\* uploadImageWithRetry, postToFBSinglePost and main.
ResizeRaises ==
    /\ pubPc = "upload"
    /\ rev = "p002"
    /\ attempt = 0
    /\ currentImage \in disk
    /\ CountUpload
    /\ ended' = [ended EXCEPT ![assetNo] = "raised"]
    /\ pubPc' = "raised"
    /\ UNCHANGED <<disk, assetNo, attempt, currentImage, mediaIds, createCalls,
                   createResult, attached, outcome>>
    /\ FramePublish

\* The upload request throws out of the publisher: part_003 171-180 has no
\* try/catch; in part_004 56-57 createReadStream of a file that is not there
\* is outside the try and its error may surface outside it.
UploadRaises ==
    /\ pubPc = "upload"
    /\ rev = "p003_a" \/ (rev = "p004" /\ currentImage \notin disk)
    /\ CountUpload
    /\ ended' = [ended EXCEPT ![assetNo] = "raised"]
    /\ pubPc' = "raised"
    /\ UNCHANGED <<disk, assetNo, attempt, currentImage, mediaIds, createCalls,
                   createResult, attached, outcome>>
    /\ FramePublish

\* automation.js 131-134: each image is posted as a photo post of its own
\* (postToFB catches every failure), then unlinked; unlinkSync of a file that
\* is not there throws into the catch of handleNoticeMedia, which returns.
PostPhoto ==
    /\ pubPc = "upload"
    /\ rev = "auto_a"
    /\ createCalls' = createCalls + 1
    /\ \E o \in {"ok", "rejected", "threw"} : createResult' = o
    /\ attached' = 1
    /\ IF Original(assetNo) \in disk
       THEN /\ disk' = disk \ {Original(assetNo)}
            /\ AssetEnds("posted")
       ELSE /\ disk' = disk
            /\ ended' = [ended EXCEPT ![assetNo] = "raised"]
            /\ pubPc' = "done"
            /\ UNCHANGED <<assetNo, attempt, currentImage>>
    /\ outcome' = IF pubPc' = "done" THEN "undefined" ELSE outcome
    /\ UNCHANGED <<mediaIds, attempts, uploadCalls>>
    /\ FramePublish

\* Revisions that return without a create-post call: part_002 123-126 when
\* there are assets and none was uploaded, part_004 102 / 130-132 when none
\* was uploaded.
skipsPost(r, ids, paths) ==
    \/ r = "p002" /\ ids = <<>> /\ paths # <<>>
    \/ r = "p004" /\ ids = <<>>

\* The files main's cleanup of part_004 293 removes before unlinkSync throws
\* on the first file that is not there.
unlinkedBeforeThrow(n, d) ==
    { Original(k) : k \in { j \in 1..n : \A i \in 1..j : Original(i) \in d } }

\* The create-post call and the cleanup.
\*   part_005 98-136: the call is in try/catch; finally unlinks every asset
\*     file that exists;
\*   part_002 123-151, main 276-278: the call has no try/catch; main unlinks
\*     the asset files that exist;
\*   part_004 102-132, main 293: the call is in try/catch; main unlinks every
\*     asset file with no existsSync test;
\*   part_003 189-195: the call has no try/catch and its answer is not read;
\*     postToFB unlinks the asset files that exist;
\*   automation.js 147: postToFB(message), for a notice with no image.
CreatePost ==
    /\ pubPc = "post"
    /\ LET skips == skipsPost(rev, mediaIds, imagePaths)
           n == Len(imagePaths)
       IN  /\ \E o \in {"ok", "rejected", "threw"} :
                /\ skips => o = "ok"
                /\ (~skips /\ rev \in {"p002", "p003_a"}) => o # "threw"
                /\ createCalls' = IF skips THEN createCalls ELSE createCalls + 1
                /\ createResult' = IF skips THEN "none" ELSE o
                /\ attached' = IF skips THEN 0 ELSE Len(mediaIds)
                /\ outcome' = IF rev = "p005"
                              THEN publishOutcome(o, Len(mediaIds))
                              ELSE "undefined"
           /\ IF rev = "p004" /\ Originals(n) \ disk # {}
              THEN /\ disk' = disk \ unlinkedBeforeThrow(n, disk)
                   /\ pubPc' = "raised"
              ELSE /\ disk' = disk \ Originals(n)
                   /\ pubPc' = "done"
    /\ UNCHANGED <<assetNo, attempt, currentImage, mediaIds, attempts, ended,
                   uploadCalls>>
    /\ FramePublish

\* part_002 139-144, part_003 194: the create-post request throws; nothing
\* catches it in the publisher and the cleanup is not reached.
CreatePostRaises ==
    /\ pubPc = "post"
    /\ rev \in {"p002", "p003_a"}
    /\ ~skipsPost(rev, mediaIds, imagePaths)
    /\ createCalls' = createCalls + 1
    /\ createResult' = "threw"
    /\ attached' = Len(mediaIds)
    /\ pubPc' = "raised"
    /\ UNCHANGED <<disk, assetNo, attempt, currentImage, mediaIds, attempts, ended,
                   uploadCalls, outcome>>
    /\ FramePublish

NextPublish ==
    \/ UploadAttempt
    \/ ResizeRaises
    \/ UploadRaises
    \/ PostPhoto
    \/ CreatePost
    \/ CreatePostRaises

SpecPublish == InitPublish /\ [][NextPublish]_vars

(***************************************************************************)
(* The publish step: claims                                                *)
(***************************************************************************)
\* C12: in the revisions the claim names (part_005, part_002, part_003 1-260),
\* once the publish step of a notice has returned or raised, no image file of
\* the notice is on disk, the resized copies made during the upload retries
\* included.
C12_NoFileLeftAfterPublish ==
    (rev \in {"p005", "p002", "p003_a"} /\ pubPc \in {"done", "raised"})
        => disk = {}

\* C13: in the revisions the claim names (part_005, part_002, automation.js
\* 1-188), a notice handed to the publish step gets exactly one create-post
\* call: never more than one, and one once the step is over.
C13_ExactlyOneCreatePost ==
    rev \in {"p005", "p002", "auto_a"}
        => /\ createCalls <= 1
           /\ pubPc \in {"done", "raised"} => createCalls = 1

\* C14 as stated: in the revisions the claim names (part_005, part_004), the
\* upload calls made for a notice before its create-post call are at most as
\* many as the assets handed to the publish step.
C14_UploadCallsAtMostAssets ==
    rev \in {"p005", "p004"} => uploadCalls <= Len(imagePaths)

\* C14 as amended: the upload calls made for a notice before its create-post
\* call are at most maxRetries per asset, and at most one media reference per
\* asset is attached to the post.
C14_UploadCallsAtMostRetriesPerAsset ==
    rev \in {"p005", "p004"}
        => /\ uploadCalls <= maxRetries * Len(imagePaths)
           /\ \A k \in DOMAIN attempts : attempts[k] <= maxRetries
           /\ Len(mediaIds) <= Len(imagePaths)
           /\ createCalls > 0 => attached <= Len(imagePaths)

\* C14 witness: the create-post call has been made after more upload calls
\* than there are assets, every asset having been retried to the end.
C14_PostAfterRetries ==
    /\ rev \in {"p005", "p004"}
    /\ createCalls = 1
    /\ Len(imagePaths) = MaxAssets
    /\ uploadCalls > Len(imagePaths)
    /\ \E k \in DOMAIN attempts : attempts[k] = maxRetries

\* C15: in the revisions the claim names (part_005, part_002, part_004), an
\* asset gets at most maxRetries upload attempts, and the upload loop of an
\* asset ends only at the attempt that returned a media id or after the
\* failed attempt number maxRetries.
C15_UploadLoopEndsAtIdOrThirdFailure ==
    rev \in RetryRevs
        => \A k \in DOMAIN attempts :
             /\ attempts[k] <= maxRetries
             /\ ended[k] # "none" => (ended[k] = "id" \/ attempts[k] = maxRetries)

\* C16: in part_005, the publish step returns 'image' exactly when the
\* create-post call succeeded with at least one media reference attached,
\* 'text' exactly when it succeeded with none, and false in every other case.
C16_OutcomeMatchesCreatePost ==
    (rev = "p005" /\ pubPc = "done")
        => /\ outcome \in {"image", "text", "false"}
           /\ outcome = "image" <=> (createResult = "ok" /\ attached >= 1)
           /\ outcome = "text" <=> (createResult = "ok" /\ attached = 0)
           /\ outcome = "false" <=> createResult # "ok"
           /\ attached = Len(mediaIds)

\* C16 witness: the publish step of part_005 has returned 'text' for a notice
\* with assets, none of which could be uploaded.
C16_TextOnlyAfterFailedUploads ==
    /\ rev = "p005"
    /\ pubPc = "done"
    /\ Len(imagePaths) = MaxAssets
    /\ mediaIds = <<>>
    /\ createResult = "ok"
    /\ outcome = "text"

\* C18: in the revisions the claim names (part_002, part_005, part_003 1-260),
\* the upload of an asset never raises (it ends with a media id or with
\* null), and once the publish step is over every asset has had its upload
\* and the create-post call has been made, whatever uploads failed.
C18_FailedUploadDropsOnlyTheAsset ==
    rev \in {"p002", "p005", "p003_a"}
        => /\ \A k \in DOMAIN ended : ended[k] # "raised"
           /\ pubPc \in {"done", "raised"}
                => /\ \A k \in DOMAIN ended : ended[k] # "none"
                   /\ createCalls >= 1

(***************************************************************************)
(* The run: claims on publishing and recording                             *)
(***************************************************************************)
\* C17: in part_005, an id is in the store by a record step of this run only
\* for a notice whose create-post call succeeded.
C17_RecordedOnlyAfterSuccessfulPost ==
    (rev = "p005" /\ lastId # NoId) => lastResult = "ok"

\* C19: in the revisions the claim names (part_003 1-260, part_005), an
\* exception raised while the media of a notice are resolved or while the
\* notice is published never ends the run.
C19_NoticeExceptionDoesNotEndRun ==
    rev \in {"p003_a", "p005"} => raisedAt \notin {"resolve", "publish"}

\* C20: in the revisions the claim names (part_003 1-260, part_005), a notice
\* for which no media is resolved gets no create-post call in either run and
\* its id is not added to the store.
C20_NoMediaNoticeIsSkipped ==
    rev \in {"p003_a", "p005"}
        => \A i \in NoMediaNotices :
             /\ \A r \in 1..2 : i \notin postedIn[r]
             /\ ~storeIncludes(posted, noticeId(rev, Notice(i)))

(***************************************************************************)
(* The media sources of a notice, step by step: the order in which main    *)
(* tries them, and what is done with the bytes the document link serves    *)
(***************************************************************************)
ResolveRevs == {"p003_a", "p001_b", "p003_b", "p005"}

\* What the document link may serve: the request fails (reach = FALSE), or
\* answers with an error status, or answers 200 with a content type that
\* holds "pdf" or not, with bytes that start with "%PDF" or not, that
\* PDFDocument.load parses or not.  An error answer carries no document and
\* only bytes that start with "%PDF" parse.
Served ==
    { s \in [reach : BOOLEAN, ok : BOOLEAN, ctypePdf : BOOLEAN, magic : BOOLEAN,
             parsable : BOOLEAN] :
        /\ ~s.reach => (~s.ok /\ ~s.ctypePdf)
        /\ ~s.ok => ~s.magic
        /\ s.parsable => s.magic }

\* part_003 533-545 tries the embedded image first and the document only
\* when there is none; the other revisions look for the document first.
DocumentFirst(r) == r # "p003_b"

\* part_005 249-253 has no embedded-image source.
TriesImage(r) == r # "p005"

\* The document link main finds: part_003 102-121 and part_001 303-326 look
\* at the iframe and then at the download anchor; part_003 353-375 and
\* part_005 158-167 look at the anchors only.
findsLink(r, d) ==
    IF r \in {"p003_a", "p001_b"} THEN d.iframePdf \/ d.anchorPdf ELSE d.anchorPdf

\* The embedded image main takes: part_003 144 wants both sides over 200 px,
\* part_001 269 and part_003 323 skip an image with a side under 200 px; all
\* want an image extension.
imageQualifies(r, g) ==
    IF r = "p003_a"
    THEN qualifies(g)
    ELSE g.w >= MinImageSide /\ g.h >= MinImageSide /\ g.ext

\* The exception of fetch (no answer) is caught by part_003 62-65 only.
CatchesFetch(r) == r = "p003_a"

\* An error status: part_005 177 throws out of pdfToImages; part_003 47
\* throws into the catch of 62-65, part_001 338 and part_003 386-389 return [].
ThrowsOnStatus(r) == r = "p005"

\* The check of the fetched bytes before they are parsed: part_003 49 looks
\* at the first bytes, part_001 339-343 and part_003 391-403 at the content
\* type and at the first bytes, part_005 177-184 at nothing.
HasCheck(r) == r # "p005"

documentCheck(r, s) ==
    IF r = "p003_a" THEN s.magic ELSE s.ctypePdf /\ s.magic

\* PDFDocument.load throws: caught by part_003 70-71, part_001 348-349 and
\* part_003 408-414, by nothing in part_005 183.
CatchesParse(r) == r # "p005"

InitResolve ==
    /\ rev \in ResolveRevs
    /\ detail \in { d \in Details : WellFormedDetail(d) }
    /\ served \in IF detail.pages > 0 THEN Served ELSE {NoServed}
    /\ resPc = IF DocumentFirst(rev) THEN "document" ELSE "image"
    /\ tried = <<>>
    /\ docSteps = <<>>
    /\ resResult = NoMedia
    /\ mediaPc = "idle" /\ mediaResult = NoMedia
    /\ IdleFilter /\ IdleId /\ IdleRun /\ IdlePdf /\ IdlePub /\ IdleNet

FrameResolve ==
    UNCHANGED <<rev, varsFilter, varsId, varsRun, varsPdf, varsMedia, varsPub,
                varsNet, served>>

\* main looks for the document link of the detail page.  With no link, the
\* revisions that look for the document first go on to the embedded image
\* (part_005 has none: images stays []); part_003 538-545, which comes here
\* after the image, goes on with no image.
LookForDocument ==
    /\ resPc = "document"
    /\ tried' = Append(tried, "document")
    /\ IF findsLink(rev, detail)
       THEN resPc' = "fetch" /\ UNCHANGED resResult
       ELSE IF DocumentFirst(rev) /\ TriesImage(rev)
            THEN resPc' = "image" /\ UNCHANGED resResult
            ELSE resPc' = "done" /\ resResult' = [kind |-> "empty", count |-> 0]
    /\ UNCHANGED docSteps
    /\ FrameResolve

\* pdfToImages fetches the document: no answer, an error status, or bytes.
\* The three tries of part_003 44-56 get the same answer and are one step.
FetchDocument ==
    /\ resPc = "fetch"
    /\ docSteps' = Append(docSteps, "fetch")
    /\ IF ~served.reach
       THEN IF CatchesFetch(rev)
            THEN resPc' = "done" /\ resResult' = [kind |-> "empty", count |-> 0]
            ELSE resPc' = "raised" /\ UNCHANGED resResult
       ELSE IF ~served.ok
            THEN IF ThrowsOnStatus(rev)
                 THEN resPc' = "raised" /\ UNCHANGED resResult
                 ELSE resPc' = "done" /\ resResult' = [kind |-> "empty", count |-> 0]
            ELSE /\ resPc' = IF HasCheck(rev) THEN "check" ELSE "parse"
                 /\ UNCHANGED resResult
    /\ UNCHANGED tried
    /\ FrameResolve

\* The check of the fetched bytes; bytes that fail it give [].
CheckDocument ==
    /\ resPc = "check"
    /\ IF documentCheck(rev, served)
       THEN /\ docSteps' = Append(docSteps, "checkPassed")
            /\ resPc' = "parse"
            /\ UNCHANGED resResult
       ELSE /\ docSteps' = Append(docSteps, "checkFailed")
            /\ resPc' = "done"
            /\ resResult' = [kind |-> "empty", count |-> 0]
    /\ UNCHANGED tried
    /\ FrameResolve

\* PDFDocument.load on the fetched bytes.
ParseDocument ==
    /\ resPc = "parse"
    /\ docSteps' = Append(docSteps, "parse")
    /\ IF served.parsable
       THEN resPc' = "rasterize" /\ UNCHANGED resResult
       ELSE IF CatchesParse(rev)
            THEN resPc' = "done" /\ resResult' = [kind |-> "empty", count |-> 0]
            ELSE resPc' = "raised" /\ UNCHANGED resResult
    /\ UNCHANGED tried
    /\ FrameResolve

\* The loop over the pages: one image per page, ten at most.
Rasterize ==
    /\ resPc = "rasterize"
    /\ docSteps' = Append(docSteps, "rasterize")
    /\ resResult' = [kind |-> "pages", count |-> Min(detail.pages, PageCap)]
    /\ resPc' = "done"
    /\ UNCHANGED tried
    /\ FrameResolve

\* main looks for an embedded image.  With none, part_003 538-545 goes on to
\* the document; the other revisions have null in hand.
TryImage ==
    /\ resPc = "image"
    /\ tried' = Append(tried, "image")
    /\ IF imageQualifies(rev, detail.img)
       THEN resPc' = "done" /\ resResult' = [kind |-> "image", count |-> 1]
       ELSE IF DocumentFirst(rev)
            THEN resPc' = "done" /\ resResult' = [kind |-> "null", count |-> 0]
            ELSE resPc' = "document" /\ UNCHANGED resResult
    /\ UNCHANGED docSteps
    /\ FrameResolve

NextResolve ==
    \/ LookForDocument
    \/ FetchDocument
    \/ CheckDocument
    \/ ParseDocument
    \/ Rasterize
    \/ TryImage

SpecResolve == InitResolve /\ [][NextResolve]_vars

Tried(source) == \E i \in DOMAIN tried : tried[i] = source

\* What the link serves is no valid document: the request failed, the answer
\* has the wrong content type or the wrong first bytes, or it does not parse.
InvalidServed ==
    ~served.reach \/ ~served.ok \/ ~served.ctypePdf \/ ~served.magic
        \/ ~served.parsable

\* C21: in the revisions the claim names (part_003 1-260, part_001 212-464),
\* when a document link was found and what it serves is no valid document,
\* media resolution ends with no page of the document in hand and with the
\* embedded image tried.
C21_InvalidDocumentFallsBackToImage ==
    (rev \in {"p003_a", "p001_b"} /\ resPc \in {"done", "raised"}
        /\ findsLink(rev, detail) /\ InvalidServed)
        => (resResult.kind # "pages" /\ Tried("image"))

\* C26: in the revisions the claim names (part_003 1-260, part_003 262-560),
\* the sources are tried in one order and the first success wins: the
\* document is the first source tried, the embedded image is tried only
\* after the document and only when no page of a document is in hand, a
\* screenshot only after both and only when neither gave an asset, and the
\* source that gave the assets is the last one tried.
C26_DocumentThenImageThenScreenshot ==
    rev \in {"p003_a", "p003_b"} =>
        /\ tried # <<>> => tried[1] = "document"
        /\ \A i \in DOMAIN tried :
              tried[i] = "image" =>
                 /\ \E j \in 1..(i - 1) : tried[j] = "document"
                 /\ resResult.kind # "pages"
        /\ \A i \in DOMAIN tried :
              tried[i] = "screenshot" =>
                 /\ \E j \in 1..(i - 1) : tried[j] = "document"
                 /\ \E j \in 1..(i - 1) : tried[j] = "image"
                 /\ resResult.kind \notin {"pages", "image"}
        /\ resResult.kind = "pages" => tried[Len(tried)] = "document"
        /\ resResult.kind = "image" => tried[Len(tried)] = "image"

\* C27: in the revisions the claim names (part_003 1-260, part_003 262-560,
\* part_005), every parse and every rasterization of fetched bytes comes
\* after a check of these bytes that passed, and none comes after a check
\* that failed.
C27_ParseOnlyAfterPassedCheck ==
    rev \in {"p003_a", "p003_b", "p005"} =>
        \A i \in DOMAIN docSteps :
            docSteps[i] \in {"parse", "rasterize"} =>
                /\ \E j \in 1..(i - 1) : docSteps[j] = "checkPassed"
                /\ \A j \in 1..(i - 1) : docSteps[j] # "checkFailed"

(***************************************************************************)
(* The run: persistence failures, the store as a set                       *)
(***************************************************************************)
\* C22: in the revisions the claim names (part_003 1-260, part_005), once a
\* write of the store file has failed in a run, that run has ended with the
\* error of the write: it is at no other step.
C22_WriteFailureEndsRun ==
    (rev \in {"p003_a", "p005"} /\ runNo = 1 /\ writeFailed)
        => (pc = "raised" /\ raisedAt = "persist")

NoDuplicates(s) == \A i, j \in DOMAIN s : s[i] = s[j] => i = j

\* C28: in the revisions the claim names (part_005, part_003 1-260), with a
\* store file that holds no id twice (every store file of StoreFiles), the
\* in-memory store and the store file hold no id twice in any state of a run.
C28_StoreHoldsNoIdTwice ==
    rev \in {"p005", "p003_a"}
        => (NoDuplicates(posted) /\ NoDuplicates(file.ids))

\* A run over a list where the first notices come again has recorded the
\* first notice and is over.
C28_RepeatedNoticeRecordedOnce ==
    /\ rev \in {"p005", "p003_a"}
    /\ runNo = 1 /\ pc = "done"
    /\ notices = PeriodicList(4)
    /\ lastId = noticeId(rev, Notice(3))
    /\ storeIncludes(posted, noticeId(rev, Notice(1)))
    /\ Len(posted) = MAX_POSTED

(***************************************************************************)
(* The run: the wait between posts, the browser, repeated notices, the     *)
(* summary counters                                                        *)
(***************************************************************************)
\* C23: in the revisions the claim names (part_005, part_003 1-260,
\* part_004), no create-post call of a run is made while the wait of
\* POST_GAP_MS after the create-post call before it is still due.
C23_WaitBetweenPosts ==
    rev \in {"p005", "p003_a", "p004"} => ~gapSkipped

\* C24: in the revisions the claim names with one browser per run (part_005,
\* part_003 1-260), a run that is over, normally or by an exception, has
\* closed the browser it launched.
C24_BrowserClosedAtEnd ==
    (rev \in {"p005", "p003_a"} /\ pc \in {"done", "raised"}) => ~browserOpen

GapsBelowCap ==
    \A i, j \in DOMAIN notices :
        (i < j /\ notices[i] = notices[j]) => j - i - 1 < MAX_POSTED

C30_CountersAddUp ==
    rev = "p005" =>
        /\ summary.totalNotices
             = summary.postedWithImages + summary.postedTextOnly + summary.failedPosts
        /\ summary.totalNotices = records

\* A run of part_005 is over with a post of each kind counted.
C30_EveryKindCounted ==
    /\ rev = "p005" /\ pc = "done"
    /\ summary.postedWithImages > 0
    /\ summary.postedTextOnly > 0
    /\ summary.failedPosts > 0

(***************************************************************************)
(* The calls made through fetch, and the agent each is made with           *)
(***************************************************************************)
NetRevs == {"p005", "p006"}

MaxNetNotices == 2

\* An agent that accepts invalid certificates on every call, as a process
\* wide setting would give: the behaviour C25 rules out.
agentOf_everywhere(r, kind, scheme) == "insecure"

\* The agent option of a call:
\*   part_005 171-175: the document fetch passes insecureAgent for an https
\*     url (and for each https redirect), no agent for http;
\*   part_006 48-51: the document fetch passes an agent with
\*     rejectUnauthorized: false;
\*   part_005 68-71 and 111-114, part_006 90-93: the calls to the Graph API
\*     pass no agent.
agentOf(r, kind, scheme) ==
    IF kind = "document"
    THEN (IF r = "p006" \/ scheme = "https:" THEN "insecure" ELSE "default")
    ELSE "default"

\* The notices of a run, as far as their calls go: with a document link
\* (http or https) or not, and the number of files handed to the publisher.
\* part_005 249-253 has files only from a document; part_006 53-60 has the
\* first page of the document among the files.
NetNotices ==
    { [hasPdf |-> h, scheme |-> s, files |-> f] :
        h \in BOOLEAN, s \in {"http:", "https:"}, f \in 0..MaxAssets }

WellFormedNet(r, n) ==
    /\ (r = "p005" /\ ~n.hasPdf) => n.files = 0
    /\ (r = "p006" /\ n.hasPdf) => n.files > 0
    /\ ~n.hasPdf => n.scheme = "http:"

\* The call that carries a file: part_005 68 uploads it unpublished, part_006
\* 90 posts it as a photo.
fileCall(r) == IF r = "p006" THEN "photo" ELSE "upload"

\* part_005 posts with one more call (111); part_006 has none.
HasCreatePost(r) == r = "p005"

InitNet ==
    /\ rev \in NetRevs
    /\ netIn = NoCall
    /\ netPc = "next"
    /\ netSent = 0
    /\ calls = {}
    /\ IdleFilter /\ IdleId /\ IdleRun /\ IdlePdf /\ IdleMedia /\ IdlePub /\ IdleRes

FrameNet ==
    UNCHANGED <<rev, varsFilter, varsId, varsRun, varsPdf, varsMedia, varsPub,
                varsRes>>

\* main comes to the next notice.  part_006 64-67 goes on to the next one at
\* once when the notice has no file.
NextNotice ==
    /\ netPc = "next"
    /\ netIn.no < MaxNetNotices
    /\ \E n \in NetNotices :
         /\ WellFormedNet(rev, n)
         /\ netIn' = [no |-> netIn.no + 1, hasPdf |-> n.hasPdf,
                      scheme |-> n.scheme, files |-> n.files]
         /\ netPc' = IF n.hasPdf THEN "fetch"
                     ELSE IF HasCreatePost(rev) \/ n.files > 0 THEN "send"
                     ELSE "next"
    /\ netSent' = 0
    /\ UNCHANGED calls
    /\ FrameNet

\* The fetch of the document.
FetchCall ==
    /\ netPc = "fetch"
    /\ calls' = calls \cup
         {[kind |-> "document", agent |-> agentOf(rev, "document", netIn.scheme)]}
    /\ netPc' = "send"
    /\ UNCHANGED <<netIn, netSent>>
    /\ FrameNet

\* The call that carries the next file; after the last one part_006 is
\* through with the notice.
FileCall ==
    /\ netPc = "send"
    /\ netSent < netIn.files
    /\ calls' = calls \cup
         {[kind |-> fileCall(rev), agent |-> agentOf(rev, fileCall(rev), "https:")]}
    /\ netSent' = netSent + 1
    /\ netPc' = IF ~HasCreatePost(rev) /\ netSent' = netIn.files THEN "next"
                ELSE "send"
    /\ UNCHANGED netIn
    /\ FrameNet

\* The create-post call of part_005.
PostCall ==
    /\ netPc = "send"
    /\ netSent = netIn.files
    /\ HasCreatePost(rev)
    /\ calls' = calls \cup
         {[kind |-> "post", agent |-> agentOf(rev, "post", "https:")]}
    /\ netPc' = "next"
    /\ UNCHANGED <<netIn, netSent>>
    /\ FrameNet

NextNet ==
    \/ NextNotice
    \/ FetchCall
    \/ FileCall
    \/ PostCall

SpecNet == InitNet /\ [][NextNet]_vars

\* C25: in the revisions the claim names (part_005, part_006), every call made
\* with the agent that accepts invalid certificates is a fetch of a document:
\* no upload, photo or create-post call is made with it.
C25_InsecureAgentOnlyForDocuments ==
    rev \in NetRevs =>
        \A c \in calls : c.agent = "insecure" => c.kind = "document"

\* A run of part_005 has fetched a document over https with the insecure
\* agent and has made an upload and a create-post call.
C25_DocumentThenUploadAndPost ==
    /\ rev = "p005"
    /\ [kind |-> "document", agent |-> "insecure"] \in calls
    /\ [kind |-> "upload", agent |-> "default"] \in calls
    /\ [kind |-> "post", agent |-> "default"] \in calls

====
